---------------------------- MODULE Spec2Model ----------------------------
(***************************************************************************)
(* Model of the merge-cluster modal of Panoptic                            *)
(* (panoptic_front/src/components/modals/MergeClusterModal.vue).           *)
(*                                                                         *)
(* JavaScript strings are sequences of one-character strings, so that the  *)
(* conversions of the component (String, JSON.stringify, join, sort) are   *)
(* computed rather than assumed.  A JavaScript value is a record [t, v]:   *)
(* t is the runtime type and v the payload.  "T | null" is a sequence of   *)
(* at most one element: None is null, Some(x) is x.                        *)
(***************************************************************************)
EXTENDS Integers, Sequences, FiniteSets, TLC

\* ------------------------------------------------------------------------
\* Bounds of the model
\* ------------------------------------------------------------------------
MaxMembers == 2
MaxInFlight == 2

\* ------------------------------------------------------------------------
\* JavaScript values
\* ------------------------------------------------------------------------
None == << >>
Some(x) == << x >>

Undefined == [t |-> "undefined", v |-> << >>]
NullV == [t |-> "null", v |-> << >>]
Str(s) == [t |-> "string", v |-> s]
Num(n) == [t |-> "number", v |-> n]
Bool(b) == [t |-> "boolean", v |-> b]
Arr(s) == [t |-> "array", v |-> s]
DateV(ms) == [t |-> "date", v |-> ms]

\* value === undefined || value === null
IsAbsent(value) == value.t \in {"undefined", "null"}

\* Array.prototype.join
RECURSIVE Join(_, _)
Join(strs, sep) ==
    IF Len(strs) = 0 THEN << >>
    ELSE IF Len(strs) = 1 THEN strs[1]
    ELSE strs[1] \o sep \o Join(Tail(strs), sep)

\* values.filter(v => v !== undefined && v !== null)
RECURSIVE DefinedValues(_)
DefinedValues(values) ==
    IF values = << >> THEN << >>
    ELSE (IF IsAbsent(Head(values)) THEN << >> ELSE << Head(values) >>)
         \o DefinedValues(Tail(values))

\* Array.prototype.map over a sequence
MapSeq(s, F(_)) == [i \in 1..Len(s) |-> F(s[i])]

SeqToSet(s) == { s[i] : i \in 1..Len(s) }

\* the decimal digits of a natural number, most significant first
RECURSIVE DecDigits(_)
DecDigits(n) == IF n < 10 THEN << n >> ELSE DecDigits(n \div 10) \o << n % 10 >>

DigitChar == << "0", "1", "2", "3", "4", "5", "6", "7", "8", "9" >>

\* String(n) for an integer n
NumToString(n) ==
    IF n < 0 THEN << "-" >> \o MapSeq(DecDigits(0 - n), LAMBDA d : DigitChar[d + 1])
    ELSE MapSeq(DecDigits(n), LAMBDA d : DigitChar[d + 1])

BoolToString(b) == IF b THEN << "t", "r", "u", "e" >> ELSE << "f", "a", "l", "s", "e" >>

\* Date.prototype.toISOString for a date of ms milliseconds after the epoch, ms < 10
ToISOString(ms) ==
    << "1", "9", "7", "0", "-", "0", "1", "-", "0", "1", "T",
       "0", "0", ":", "0", "0", ":", "0", "0", ".", "0", "0" >>
    \o << DigitChar[ms + 1] >> \o << "Z" >>

\* String(value)
JsString(value) ==
    CASE value.t = "undefined" -> << "u", "n", "d", "e", "f", "i", "n", "e", "d" >>
      [] value.t = "null" -> << "n", "u", "l", "l" >>
      [] value.t = "string" -> value.v
      [] value.t = "number" -> NumToString(value.v)
      [] value.t = "boolean" -> BoolToString(value.v)
      [] value.t = "date" -> ToISOString(value.v)
      [] value.t = "array" -> Join(MapSeq(value.v, NumToString), << "," >>)

\* the comparison of Array.prototype.sort without a comparator: the elements
\* are compared as strings, here the decimal digits of two naturals
RECURSIVE DigitsLess(_, _)
DigitsLess(a, b) ==
    IF b = << >> THEN FALSE
    ELSE IF a = << >> THEN TRUE
    ELSE IF Head(a) # Head(b) THEN Head(a) < Head(b)
    ELSE DigitsLess(Tail(a), Tail(b))

StringLess(m, n) == DigitsLess(DecDigits(m), DecDigits(n))

\* insertion of x into a sorted sequence, after the elements not greater than it
RECURSIVE SortInsert(_, _)
SortInsert(x, s) ==
    IF s = << >> THEN << x >>
    ELSE IF StringLess(x, Head(s)) THEN << x >> \o s
    ELSE << Head(s) >> \o SortInsert(x, Tail(s))

\* [...value].sort()
RECURSIVE JsSort(_)
JsSort(s) == IF s = << >> THEN << >> ELSE SortInsert(s[Len(s)], JsSort(SubSeq(s, 1, Len(s) - 1)))

\* JSON.stringify(value) for the values of the model
JsonStringify(value) ==
    CASE value.t = "string" -> << "\"" >> \o value.v \o << "\"" >>
      [] value.t = "number" -> NumToString(value.v)
      [] value.t = "boolean" -> BoolToString(value.v)
      [] value.t = "array" ->
            << "[" >> \o Join(MapSeq(value.v, NumToString), << "," >>) \o << "]" >>
      [] OTHER -> << "n", "u", "l", "l" >>

\* ------------------------------------------------------------------------
\* Value Normalizer
\* ------------------------------------------------------------------------
\* stringifyValue without the sort of an array value
stringifyValueUnsorted(value, property) ==
    IF IsAbsent(value) THEN << "_", "_", "u", "n", "d", "e", "f", "i", "n", "e", "d", "_", "_" >>
    ELSE IF value.t = "array" THEN JsonStringify(value)
    ELSE IF value.t = "date" THEN ToISOString(value.v)
    ELSE IF property.type = "color" THEN JsString(value)
    ELSE JsonStringify(value)

stringifyValue(value, property) ==
    IF IsAbsent(value) THEN << "_", "_", "u", "n", "d", "e", "f", "i", "n", "e", "d", "_", "_" >>
    ELSE IF value.t = "array" THEN JsonStringify(Arr(JsSort(value.v)))
    ELSE IF value.t = "date" THEN ToISOString(value.v)
    ELSE IF property.type = "color" THEN JsString(value)
    ELSE JsonStringify(value)

\* t('common.yes') and t('common.no') of vue-i18n
LabelYes == << "y", "e", "s" >>
LabelNo == << "n", "o" >>

\* the truthiness of a JavaScript value
Truthy(value) ==
    CASE value.t = "boolean" -> value.v
      [] value.t = "number" -> value.v # 0
      [] value.t = "string" -> value.v # << >>
      [] OTHER -> ~IsAbsent(value)

formatValue(value, property) ==
    IF IsAbsent(value) THEN << >>
    ELSE IF value.t = "array" THEN Join(MapSeq(value.v, NumToString), << ",", " " >>)
    ELSE IF value.t = "date" THEN ToISOString(value.v)
    ELSE IF property.type = "checkbox" THEN (IF Truthy(value) THEN LabelYes ELSE LabelNo)
    ELSE JsString(value)

\* ------------------------------------------------------------------------
\* Properties and instances
\* ------------------------------------------------------------------------
Prop(id, type, mode, computed) ==
    [id |-> id, type |-> type, mode |-> mode, computed |-> computed]

\* PropertyMode.id: the value belongs to one instance; otherwise to the image (sha1)
PropertyModeId == "id"
PropertyModeSha1 == "sha1"

\* the types buildRows leaves out
ReservedTypes == {"_folders", "_id", "_sha1", "_ahash", "_width", "_height"}

\* isTag of utils/utils
isTag(type) == type \in {"tag", "multi_tags"}

pName == Prop(1, "string", PropertyModeSha1, FALSE)
pTags == Prop(2, "multi_tags", PropertyModeId, FALSE)
pColor == Prop(3, "color", PropertyModeSha1, FALSE)
pCheck == Prop(4, "checkbox", PropertyModeId, FALSE)
pDate == Prop(5, "date", PropertyModeSha1, FALSE)
pTag == Prop(6, "tag", PropertyModeId, FALSE)
pComputed == Prop(7, "string", PropertyModeId, TRUE)
pZero == Prop(0, "number", PropertyModeId, FALSE)
pSysId == Prop(-1, "_id", PropertyModeId, FALSE)
pFolder == Prop(8, "_folders", PropertyModeId, FALSE)
pId == Prop(9, "_id", PropertyModeId, FALSE)
pSha1 == Prop(10, "_sha1", PropertyModeSha1, FALSE)
pAhash == Prop(11, "_ahash", PropertyModeSha1, FALSE)
pWidth == Prop(12, "_width", PropertyModeSha1, FALSE)
pHeight == Prop(13, "_height", PropertyModeSha1, FALSE)

\* img.properties[property.id]: undefined when the instance has no entry
GetValue(img, propertyId) ==
    IF propertyId \in DOMAIN img.properties THEN img.properties[propertyId] ELSE Undefined

\* ------------------------------------------------------------------------
\* Row Builder
\* ------------------------------------------------------------------------
CombinedKey == << "c", "o", "m", "b", "i", "n", "e", "d" >>

\* the separator formatValue joins an array with, taken for the combined value
SeparatorOfArrays == << ",", " " >>

\* the separator of the combined value of a property that is not a tag
Separator == << " ", "-", "-", " " >>

\* an array in place of the Set: every id is appended, seen before or not
AddAllKeepsRepeats(merged, ids) == merged \o ids

\* merged.add(id) for each id of ids, in order: a Set keeps the first insertion
RECURSIVE AddAll(_, _)
AddAll(merged, ids) ==
    IF ids = << >> THEN merged
    ELSE AddAll(IF Head(ids) \in SeqToSet(merged) THEN merged ELSE Append(merged, Head(ids)),
                Tail(ids))

\* the forEach of combineValues over the defined values of a tag property
RECURSIVE MergeTags(_, _)
MergeTags(merged, defined) ==
    IF defined = << >> THEN merged
    ELSE MergeTags(AddAll(merged, IF Head(defined).t = "array" THEN Head(defined).v
                                  ELSE << Head(defined).v >>),
                   Tail(defined))

combineValues(values, property) ==
    LET defined == DefinedValues(values) IN
    IF defined = << >> THEN Undefined
    ELSE IF isTag(property.type) THEN Arr(MergeTags(<< >>, defined))
    ELSE Str(Join(MapSeq(defined, LAMBDA v : formatValue(v, property)), Separator))

\* the filter without its test of the computed flag
EligibleAllowsComputed(p) == p.id > 0 /\ p.type \notin ReservedTypes

\* the filter of data.propertyList at the head of buildRows
Eligible(p) == p.id > 0 /\ ~p.computed /\ p.type \notin ReservedTypes

\* a filter that collects the properties it keeps last first
RECURSIVE FilterEligibleReversed(_)
FilterEligibleReversed(list) ==
    IF list = << >> THEN << >>
    ELSE FilterEligibleReversed(Tail(list))
         \o (IF Eligible(Head(list)) THEN << Head(list) >> ELSE << >>)

RECURSIVE FilterEligible(_)
FilterEligible(list) ==
    IF list = << >> THEN << >>
    ELSE (IF Eligible(Head(list)) THEN << Head(list) >> ELSE << >>)
         \o FilterEligible(Tail(list))

\* one option per image with a defined value, in the order of the images
RECURSIVE MemberOptions(_, _)
MemberOptions(groupImages, property) ==
    IF groupImages = << >> THEN << >>
    ELSE LET img == Head(groupImages)
             value == GetValue(img, property.id)
         IN (IF IsAbsent(value) THEN << >>
             ELSE << [key |-> NumToString(img.id), value |-> value, sourceImageId |-> img.id] >>)
            \o MemberOptions(Tail(groupImages), property)

\* the test of the size of the Set off by one: size > 0
ConflictWhenAnyValue(values, property) ==
    Cardinality({ stringifyValue(v, property) : v \in SeqToSet(DefinedValues(values)) }) > 0

\* new Set(definedKeys).size > 1
Conflict(values, property) ==
    Cardinality({ stringifyValue(v, property) : v \in SeqToSet(DefinedValues(values)) }) > 1

\* the combined option put before the options of the members
RowOptionsCombinedFirst(groupImages, property) ==
    LET values == MapSeq(groupImages, LAMBDA img : GetValue(img, property.id)) IN
    (IF Conflict(values, property)
     THEN << [key |-> CombinedKey, value |-> combineValues(values, property)] >>
     ELSE << >>)
    \o MemberOptions(groupImages, property)

\* the options of the row of a property: the members' options, then the combined one
RowOptions(groupImages, property) ==
    LET values == MapSeq(groupImages, LAMBDA img : GetValue(img, property.id)) IN
    MemberOptions(groupImages, property)
    \o (IF Conflict(values, property)
        THEN << [key |-> CombinedKey, value |-> combineValues(values, property)] >>
        ELSE << >>)

\* selectedOptions[propertyId] = key
SetSelected(selected, propertyId, key) ==
    [id \in DOMAIN selected \cup {propertyId} |->
        IF id = propertyId THEN key ELSE selected[id]]

\* the default key without the test of conflict
DefaultKeyAlwaysFirst(selected, property, options, conflict) ==
    IF property.id \in DOMAIN selected THEN selected[property.id] ELSE options[1].key

\* the default key taken whatever the selection holds
DefaultKeyIgnoresPrior(selected, property, options, conflict) ==
    IF conflict THEN CombinedKey ELSE options[1].key

\* selectedOptions[property.id] ?? (conflict ? 'combined' : options[0].key)
DefaultKey(selected, property, options, conflict) ==
    IF property.id \in DOMAIN selected THEN selected[property.id]
    ELSE IF conflict THEN CombinedKey ELSE options[1].key

\* the loop of buildRows over the eligible properties: acc is [rows, selected]
RECURSIVE RowLoop(_, _, _)
RowLoop(properties, groupImages, acc) ==
    IF properties = << >> THEN acc
    ELSE LET property == Head(properties)
             values == MapSeq(groupImages, LAMBDA img : GetValue(img, property.id))
             options == RowOptions(groupImages, property)
             conflict == Conflict(values, property)
         IN IF DefinedValues(values) = << >> \/ options = << >>
            THEN RowLoop(Tail(properties), groupImages, acc)
            ELSE RowLoop(Tail(properties), groupImages,
                    [rows |-> Append(acc.rows,
                                [property |-> property, options |-> options, conflict |-> conflict]),
                     selected |-> SetSelected(acc.selected, property.id,
                                    DefaultKey(acc.selected, property, options, conflict))])

\* buildRows without the assignment to selectedOptions
buildRowsLeavesSelection(groupImages, properties, selected) ==
    IF groupImages = << >> THEN [rows |-> << >>, selected |-> selected]
    ELSE [rows |-> RowLoop(FilterEligible(properties), groupImages,
                           [rows |-> << >>, selected |-> selected]).rows,
          selected |-> selected]

\* buildRows: the new mergeRows and selectedOptions
buildRows(groupImages, properties, selected) ==
    IF groupImages = << >> THEN [rows |-> << >>, selected |-> selected]
    ELSE RowLoop(FilterEligible(properties), groupImages, [rows |-> << >>, selected |-> selected])

\* ------------------------------------------------------------------------
\* Commit Builder
\* ------------------------------------------------------------------------
\* a find that falls back to the first option when no key matches
FindOptionOrFirst(options, key) ==
    LET matches == { k \in 1..Len(options) : options[k].key = key } IN
    IF matches # {} THEN Some(options[CHOOSE k \in matches : \A j \in matches : k <= j])
    ELSE IF options # << >> THEN Some(options[1])
    ELSE None

\* row.options.find(o => o.key === key)
RECURSIVE FindOption(_, _)
FindOption(options, key) ==
    IF options = << >> THEN None
    ELSE IF Head(options).key = key THEN Some(Head(options))
    ELSE FindOption(Tail(options), key)

\* the loop of confirmMerge over mergeRows: commit is extended row by row
RECURSIVE CommitLoop(_, _, _, _)
CommitLoop(rows, selected, newInstance, commit) ==
    IF rows = << >> THEN commit
    ELSE LET row == Head(rows)
             option == IF row.property.id \in DOMAIN selected
                       THEN FindOption(row.options, selected[row.property.id])
                       ELSE None
         IN IF option = None \/ IsAbsent(option[1].value)
            THEN CommitLoop(Tail(rows), selected, newInstance, commit)
            ELSE IF row.property.mode = PropertyModeId
            THEN CommitLoop(Tail(rows), selected, newInstance,
                    [commit EXCEPT !.instanceValues = Append(@,
                        [propertyId |-> row.property.id, instanceId |-> newInstance.id,
                         value |-> option[1].value])])
            ELSE CommitLoop(Tail(rows), selected, newInstance,
                    [commit EXCEPT !.imageValues = Append(@,
                        [propertyId |-> row.property.id, sha1 |-> newInstance.sha1,
                         value |-> option[1].value])])

\* the commit built around the base image itself, its identifier kept
BuildCommitKeepsId(base, rows, selected) ==
    CommitLoop(rows, selected, base,
        [instances |-> << base >>, instanceValues |-> << >>, imageValues |-> << >>])

\* the commit confirmMerge hands to data.sendCommit
BuildCommit(base, rows, selected) ==
    LET newInstance == [base EXCEPT !.id = -1] IN
    CommitLoop(rows, selected, newInstance,
        [instances |-> << newInstance >>, instanceValues |-> << >>, imageValues |-> << >>])

\* ------------------------------------------------------------------------
\* Inputs: the instances a cluster is drawn from, the property lists
\* ------------------------------------------------------------------------
Instance(id, sha1, properties) == [id |-> id, sha1 |-> sha1, properties |-> properties]

inst1 ==
    Instance(1, "h1",
        (1 :> Str(<< "A" >>)) @@ (2 :> Arr(<< 1, 2 >>)) @@ (3 :> Num(3)) @@ (4 :> Bool(TRUE))
        @@ (5 :> DateV(1)) @@ (6 :> Num(5)) @@ (7 :> Str(<< "x" >>)) @@ (0 :> Num(1))
        @@ (-1 :> Num(1)) @@ (8 :> Str(<< "f" >>)) @@ (9 :> Num(1)) @@ (10 :> Str(<< "h", "1" >>))
        @@ (11 :> Str(<< "a" >>)) @@ (12 :> Num(640)) @@ (13 :> Num(480)))

inst2 ==
    Instance(2, "h1",
        (1 :> Str(<< "B" >>)) @@ (2 :> Arr(<< 2, 1 >>)) @@ (3 :> Str(<< "3" >>)) @@ (4 :> NullV)
        @@ (5 :> DateV(1)) @@ (6 :> Arr(<< 5 >>)))

inst3 ==
    Instance(3, "h3",
        (1 :> Str(<< "A" >>)) @@ (2 :> Arr(<< 10, 2 >>)) @@ (3 :> Num(4)) @@ (4 :> Bool(FALSE))
        @@ (5 :> DateV(2)) @@ (6 :> Num(7)) @@ (12 :> Num(640)))

inst4 ==
    Instance(12, "h4",
        (1 :> NullV) @@ (2 :> Arr(<< 2, 10 >>)) @@ (7 :> Str(<< "y" >>)) @@ (-1 :> Num(12))
        @@ (9 :> Num(12)) @@ (13 :> Num(480)))

InstancePool == { inst1, inst2, inst3, inst4 }

\* the sequences of at most n distinct instances of the pool
RECURSIVE ClustersUpTo(_)
ClustersUpTo(n) ==
    IF n = 0 THEN { << >> }
    ELSE LET shorter == ClustersUpTo(n - 1) IN
         shorter \cup { Append(c, i) : c \in { d \in shorter : Len(d) = n - 1 },
                                       i \in InstancePool }
Clusters == { c \in ClustersUpTo(MaxMembers) :
                \A i, j \in 1..Len(c) : i # j => c[i].id # c[j].id }

\* the clusters the modal is opened with
Payloads == { c \in Clusters : \A k \in 1..Len(c) : c[k] \in { inst1, inst2, inst4 } }

Catalog ==
    << pSysId, pName, pFolder, pTags, pComputed, pColor, pId, pCheck, pZero, pDate,
       pSha1, pTag, pAhash, pWidth, pHeight >>

Reverse(s) == [i \in 1..Len(s) |-> s[Len(s) + 1 - i]]

\* data.propertyList of the store in the sessions of the modal
StoreProperties == << pSysId, pName, pComputed, pTags >>

\* the property lists buildRows is applied to
PropertyLists == { Catalog, Reverse(Catalog), StoreProperties, << pTags, pName >> }

EmptyMap == [id \in {} |-> << >>]

\* ------------------------------------------------------------------------
\* State of the component
\* ------------------------------------------------------------------------
VARIABLES
    shown,            \* the modal store: the modal is open
    propertyList,     \* data.propertyList
    groupData,        \* None or Some([images |-> ...])
    selectedImageId,  \* None or Some(id)
    mergeRows,
    selectedOptions,  \* property id -> key of the chosen option
    merging,
    error,            \* None or Some(message)
    pending,          \* the commits of the sendCommit calls not yet settled
    last,             \* the handler that ran last
    stale,            \* per pending call: its session was closed since the call
    settledStale      \* the call settled last was stale

vars == << shown, propertyList, groupData, selectedImageId, mergeRows, selectedOptions,
           merging, error, pending, last, stale, settledStale >>

\* what the component itself holds
component == << groupData, selectedImageId, mergeRows, selectedOptions, merging, error >>

images == IF groupData = None THEN << >> ELSE groupData[1].images

\* images.find(img => img.id === selectedImageId)
RECURSIVE FindImage(_, _)
FindImage(imgs, id) ==
    IF imgs = << >> THEN None
    ELSE IF id # None /\ Head(imgs).id = id[1] THEN Some(Head(imgs))
    ELSE FindImage(Tail(imgs), id)

\* the base image taken as the first image, whatever is selected
BaseOfAlwaysFirst(imgs, id) == IF imgs # << >> THEN Some(imgs[1]) ELSE None

\* images.find(...) ?? images[0]
BaseOf(imgs, id) ==
    IF FindImage(imgs, id) # None THEN FindImage(imgs, id)
    ELSE IF imgs # << >> THEN Some(imgs[1])
    ELSE None

baseImage == BaseOf(images, selectedImageId)

\* t('modals.merge_cluster.error')
ErrorLabel == << "e", "r", "r", "o", "r" >>

\* a resetState that leaves selectedOptions as it is
resetStateKeepsSelection ==
    [mergeRows |-> << >>, error |-> None, selectedOptions |-> selectedOptions]

\* what resetState leaves in mergeRows, error and selectedOptions
resetState == [mergeRows |-> << >>, error |-> None, selectedOptions |-> EmptyMap]

Init ==
    /\ shown = FALSE
    /\ propertyList = StoreProperties
    /\ groupData = None
    /\ selectedImageId = None
    /\ mergeRows = << >>
    /\ selectedOptions = EmptyMap
    /\ merging = FALSE
    /\ error = None
    /\ pending = << >>
    /\ last = "init"
    /\ stale = << >>
    /\ settledStale = FALSE

\* the modal is opened with payload.images: Modal2 emits show
onShow(payload) ==
    /\ ~shown
    /\ shown' = TRUE
    /\ groupData' = Some([images |-> payload])
    /\ selectedImageId' = IF payload = << >> THEN None ELSE Some(payload[1].id)
    /\ LET built == buildRows(payload, propertyList, resetState.selectedOptions) IN
         /\ mergeRows' = built.rows
         /\ selectedOptions' = built.selected
    /\ error' = resetState.error
    /\ last' = "onShow"
    /\ UNCHANGED << propertyList, merging, pending, stale, settledStale >>

\* onHide, as run when Modal2 emits hide
onHide ==
    /\ mergeRows' = resetState.mergeRows
    /\ error' = resetState.error
    /\ selectedOptions' = resetState.selectedOptions
    /\ groupData' = None

\* panoptic.hideModal(ModalId.MERGE_CLUSTER): an open modal closes and emits hide
hideModal ==
    IF shown
    THEN shown' = FALSE /\ onHide
    ELSE UNCHANGED << shown, mergeRows, error, selectedOptions, groupData >>

\* every pending call is of a session that is closed now
AllStale(s) == [k \in 1..Len(s) |-> TRUE]

\* the cancel button
Cancel ==
    /\ shown
    /\ hideModal
    /\ last' = "onHide"
    /\ stale' = AllStale(stale)
    /\ UNCHANGED << propertyList, selectedImageId, merging, pending, settledStale >>

\* a click on the image of a member
SelectImage(id) ==
    /\ shown
    /\ \E k \in 1..Len(images) : images[k].id = id
    /\ selectedImageId' = Some(id)
    /\ last' = "selectImage"
    /\ UNCHANGED << shown, propertyList, groupData, mergeRows, selectedOptions, merging,
                    error, pending, stale, settledStale >>

\* the radio input of option o of row r
SelectOption(r, o) ==
    /\ shown
    /\ r \in 1..Len(mergeRows)
    /\ o \in 1..Len(mergeRows[r].options)
    /\ selectedOptions' =
            SetSelected(selectedOptions, mergeRows[r].property.id, mergeRows[r].options[o].key)
    /\ last' = "selectOption"
    /\ UNCHANGED << shown, propertyList, groupData, selectedImageId, mergeRows, merging,
                    error, pending, stale, settledStale >>

\* confirmMerge with merging set before the test of the base image
confirmMergeMarksFirst ==
    IF baseImage = None
    THEN /\ merging' = TRUE
         /\ last' = "confirmMergeRefused"
         /\ UNCHANGED << shown, propertyList, groupData, selectedImageId, mergeRows,
                         selectedOptions, error, pending, stale, settledStale >>
    ELSE /\ Len(pending) < MaxInFlight
         /\ merging' = TRUE
         /\ error' = None
         /\ pending' = Append(pending, BuildCommit(baseImage[1], mergeRows, selectedOptions))
         /\ last' = "confirmMerge"
         /\ stale' = Append(stale, FALSE)
         /\ UNCHANGED << shown, propertyList, groupData, selectedImageId, mergeRows,
                         selectedOptions, settledStale >>

\* confirmMerge up to its await: refuses without a base image, else builds the
\* commit and calls data.sendCommit
confirmMerge ==
    IF baseImage = None
    THEN /\ last' = "confirmMergeRefused"
         /\ UNCHANGED << shown, propertyList, groupData, selectedImageId, mergeRows,
                         selectedOptions, merging, error, pending, stale, settledStale >>
    ELSE /\ Len(pending) < MaxInFlight
         /\ merging' = TRUE
         /\ error' = None
         /\ pending' = Append(pending, BuildCommit(baseImage[1], mergeRows, selectedOptions))
         /\ last' = "confirmMerge"
         /\ stale' = Append(stale, FALSE)
         /\ UNCHANGED << shown, propertyList, groupData, selectedImageId, mergeRows,
                         selectedOptions, settledStale >>

\* the class of the confirm button without the test of merging
ConfirmDisabledIgnoresMerging == baseImage = None

\* the class of the confirm button: .bb.disabled has pointer-events: none
ConfirmDisabled == merging \/ baseImage = None

\* a click on the confirm button
ClickConfirm ==
    /\ shown
    /\ IF ConfirmDisabled
       THEN /\ last' = "clickIgnored"
            /\ UNCHANGED << shown, propertyList, groupData, selectedImageId, mergeRows,
                            selectedOptions, merging, error, pending, stale, settledStale >>
       ELSE confirmMerge

RemoveAt(s, i) == SubSeq(s, 1, i - 1) \o SubSeq(s, i + 1, Len(s))

\* a catch block that also resets the state
SendCommitRejectedResets(i) ==
    /\ i \in 1..Len(pending)
    /\ pending' = RemoveAt(pending, i)
    /\ mergeRows' = << >>
    /\ selectedOptions' = EmptyMap
    /\ error' = Some(ErrorLabel)
    /\ merging' = FALSE
    /\ last' = "rejected"
    /\ stale' = RemoveAt(stale, i)
    /\ settledStale' = stale[i]
    /\ UNCHANGED << shown, propertyList, groupData, selectedImageId >>

\* data.sendCommit resolves: confirmMerge resumes after its await
SendCommitResolved(i) ==
    /\ i \in 1..Len(pending)
    /\ pending' = RemoveAt(pending, i)
    /\ hideModal
    /\ merging' = FALSE
    /\ last' = "resolved"
    /\ stale' = IF shown THEN AllStale(RemoveAt(stale, i)) ELSE RemoveAt(stale, i)
    /\ settledStale' = stale[i]
    /\ UNCHANGED << propertyList, selectedImageId >>

\* a catch block that returns before merging is cleared
SendCommitRejectedKeepsMerging(i) ==
    /\ i \in 1..Len(pending)
    /\ pending' = RemoveAt(pending, i)
    /\ error' = Some(ErrorLabel)
    /\ last' = "rejected"
    /\ stale' = RemoveAt(stale, i)
    /\ settledStale' = stale[i]
    /\ UNCHANGED << shown, propertyList, groupData, selectedImageId, mergeRows,
                    selectedOptions, merging >>

\* data.sendCommit rejects: confirmMerge resumes in its catch
SendCommitRejected(i) ==
    /\ i \in 1..Len(pending)
    /\ pending' = RemoveAt(pending, i)
    /\ error' = Some(ErrorLabel)
    /\ merging' = FALSE
    /\ last' = "rejected"
    /\ stale' = RemoveAt(stale, i)
    /\ settledStale' = stale[i]
    /\ UNCHANGED << shown, propertyList, groupData, selectedImageId, mergeRows,
                    selectedOptions >>

Next ==
    \/ \E payload \in Payloads : onShow(payload)
    \/ Cancel
    \/ \E i \in InstancePool : SelectImage(i.id)
    \/ \E r \in 1..Len(StoreProperties), o \in 1..(MaxMembers + 1) : SelectOption(r, o)
    \/ ClickConfirm
    \/ \E i \in 1..MaxInFlight : SendCommitResolved(i)
    \/ \E i \in 1..MaxInFlight : SendCommitRejected(i)

Spec == Init /\ [][Next]_vars

\* ------------------------------------------------------------------------
\* The builders applied to drawn inputs: buildRows(members, properties,
\* prior selection), then confirmMerge on its rows
\* ------------------------------------------------------------------------
OptionKeys == { NumToString(i.id) : i \in InstancePool } \cup { CombinedKey }

SelectableIds == { Catalog[k].id : k \in { j \in 1..Len(Catalog) : Eligible(Catalog[j]) } }

\* the selections a rebuild starts from: none, one property, or one key everywhere
PriorSelections ==
    { EmptyMap }
    \cup { [id \in {p} |-> k] : p \in SelectableIds, k \in OptionKeys }
    \cup { [id \in SelectableIds |-> k] : k \in OptionKeys }

\* a row as the commit builder may be handed: an option without a value
LooseRow ==
    [property |-> pName,
     options |-> << [key |-> NumToString(1), value |-> Str(<< "A" >>), sourceImageId |-> 1],
                    [key |-> NumToString(2), value |-> NullV, sourceImageId |-> 2],
                    [key |-> CombinedKey, value |-> Undefined] >>,
     conflict |-> TRUE]

RowInputs == { << >>, << LooseRow >> }

FnInit ==
    /\ shown = TRUE
    /\ propertyList \in PropertyLists
    /\ \E c \in Clusters : groupData = Some([images |-> c])
    /\ selectedImageId \in { None } \cup { Some(i.id) : i \in InstancePool }
    /\ mergeRows \in RowInputs
    /\ selectedOptions \in PriorSelections
    /\ merging = FALSE
    /\ error = None
    /\ pending = << >>
    /\ last = "init"
    /\ stale = << >>
    /\ settledStale = FALSE

\* buildRows() on the images, property list and selection of the state
FnBuildRows ==
    /\ last = "init"
    /\ LET built == buildRows(images, propertyList, selectedOptions) IN
         /\ mergeRows' = built.rows
         /\ selectedOptions' = built.selected
    /\ last' = "buildRows"
    /\ UNCHANGED << shown, propertyList, groupData, selectedImageId, merging, error, pending,
                    stale, settledStale >>

\* confirmMerge() on the rows and selection of the state
FnConfirmMerge ==
    /\ last \in { "init", "buildRows" }
    /\ confirmMerge

FnNext ==
    \/ FnBuildRows
    \/ FnConfirmMerge
    \/ \E i \in 1..MaxInFlight : SendCommitResolved(i)
    \/ \E i \in 1..MaxInFlight : SendCommitRejected(i)

FnSpec == FnInit /\ [][FnNext]_vars

\* ------------------------------------------------------------------------
\* Properties
\* ------------------------------------------------------------------------
\* the commit of the sendCommit call issued last
LastCommit == pending[Len(pending)]

\* the positions of the options of a row that carry the selected key
Matches(row) ==
    { o \in 1..Len(row.options) :
        /\ row.property.id \in DOMAIN selectedOptions
        /\ row.options[o].key = selectedOptions[row.property.id] }

FirstOf(S) == CHOOSE k \in S : \A j \in S : k <= j

\* the selected option of the row exists and has a defined value
Resolvable(row) ==
    Matches(row) # {} /\ ~IsAbsent(row.options[FirstOf(Matches(row))].value)

InstanceEntries(commit, id) ==
    { k \in 1..Len(commit.instanceValues) : commit.instanceValues[k].propertyId = id }

ImageEntries(commit, id) ==
    { k \in 1..Len(commit.imageValues) : commit.imageValues[k].propertyId = id }

\* C1: at most one sendCommit call is in flight; a click on confirm while
\* merging is true is ignored and issues no second call.
C1_SingleSubmitInFlight ==
    /\ Len(pending) <= 1
    /\ (last = "clickIgnored" /\ merging => Len(pending) = 1)

C1_Witness == last = "clickIgnored" /\ merging /\ Len(pending) = 1 /\ baseImage # None

\* C2: a rejected sendCommit leaves the modal open, mergeRows and
\* selectedOptions as they were, sets error, and leaves confirm enabled;
\* confirmMerge itself changes neither the rows nor the selection.
C2_FailureKeepsSession ==
    /\ [][last' = "rejected" =>
            /\ UNCHANGED << shown, groupData, mergeRows, selectedOptions >>
            /\ error' = Some(ErrorLabel)]_vars
    /\ [][last' = "confirmMerge" =>
            UNCHANGED << shown, groupData, mergeRows, selectedOptions >>]_vars
    /\ [](last = "rejected" /\ shown /\ baseImage # None => ~ConfirmDisabled)

C2_Witness ==
    /\ last = "rejected"
    /\ shown
    /\ mergeRows # << >>
    /\ DOMAIN selectedOptions # {}
    /\ error = Some(ErrorLabel)
    /\ ~ConfirmDisabled

\* C3: a rebuild keeps the selection of a property whose selected key is
\* still the key of an option of the rebuilt row.
C3_RebuildKeepsValidSelection ==
    [][last' = "buildRows" =>
        \A r \in 1..Len(mergeRows') :
            LET row == mergeRows'[r]
                id == row.property.id
            IN (/\ id \in DOMAIN selectedOptions
                /\ \E o \in 1..Len(row.options) : row.options[o].key = selectedOptions[id])
               => selectedOptions'[id] = selectedOptions[id]]_vars

\* a rebuilt conflicting row whose selection is the key of a member
C3_Witness ==
    /\ last = "buildRows"
    /\ \E r \in 1..Len(mergeRows) :
          /\ mergeRows[r].conflict
          /\ Matches(mergeRows[r]) # {}
          /\ selectedOptions[mergeRows[r].property.id] # CombinedKey

C5_RowIffEligibleAndDefined ==
    last = "buildRows" =>
        /\ \A k \in 1..Len(propertyList) :
              LET S == propertyList[k] IN
              (\E r \in 1..Len(mergeRows) : mergeRows[r].property = S)
              <=> (/\ \E m \in 1..Len(images) : ~IsAbsent(GetValue(images[m], S.id))
                   /\ S.id > 0
                   /\ ~S.computed
                   /\ S.type \notin {"_folders", "_id", "_sha1", "_ahash", "_width", "_height"})
        /\ \A r \in 1..Len(mergeRows) : mergeRows[r].property \in SeqToSet(propertyList)
        /\ \A r1, r2 \in 1..Len(mergeRows) :
              r1 # r2 => mergeRows[r1].property.id # mergeRows[r2].property.id

\* rows were built, a computed property with a value got none, and an
\* eligible property without a value got none
C5_Witness ==
    /\ last = "buildRows"
    /\ mergeRows # << >>
    /\ \E k \in 1..Len(propertyList) :
          /\ propertyList[k].computed
          /\ \E m \in 1..Len(images) : ~IsAbsent(GetValue(images[m], propertyList[k].id))
    /\ \E k \in 1..Len(propertyList) :
          /\ propertyList[k] = pName
          /\ \A r \in 1..Len(mergeRows) : mergeRows[r].property # pName

\* the sequences a and b hold the same elements the same number of times
SameBag(a, b) ==
    /\ Len(a) = Len(b)
    /\ \A x \in SeqToSet(a) \cup SeqToSet(b) :
          Cardinality({ i \in 1..Len(a) : a[i] = x }) = Cardinality({ i \in 1..Len(b) : b[i] = x })

\* the defined values of the members for the property of a row
RowValues(row) ==
    DefinedValues(MapSeq(images, LAMBDA img : GetValue(img, row.property.id)))

\* C6: a row conflicts exactly when its members' defined values have more
\* than one distinct canonical key; multi-tag values that hold the same
\* identifiers in another order do not conflict.
C6_ConflictIffDistinctKeys ==
    last = "buildRows" =>
        \A r \in 1..Len(mergeRows) :
            LET row == mergeRows[r]
                values == RowValues(row)
            IN /\ row.conflict <=>
                    (\E i, j \in 1..Len(values) :
                        stringifyValue(values[i], row.property)
                            # stringifyValue(values[j], row.property))
               /\ (/\ row.property.type = "multi_tags"
                   /\ \A i \in 1..Len(values) : values[i].t = "array"
                   /\ \A i, j \in 1..Len(values) : SameBag(values[i].v, values[j].v))
                  => ~row.conflict

\* a multi-tag row of two members with the same tags in another order
C6_Witness ==
    /\ last = "buildRows"
    /\ \E r \in 1..Len(mergeRows) :
          LET values == RowValues(mergeRows[r]) IN
          /\ mergeRows[r].property.type = "multi_tags"
          /\ ~mergeRows[r].conflict
          /\ \E i, j \in 1..Len(values) : values[i].v # values[j].v

\* C7: in the commit of confirmMerge every row whose selected option exists
\* and has a defined value has exactly one entry: in instanceValues under
\* (property, -1) if the property's mode is PropertyMode.id, else in
\* imageValues under (property, sha1 of the base image); its value is the
\* value of the selected option.
C7_ResolvedRowRouted ==
    last = "confirmMerge" =>
        \A r \in 1..Len(mergeRows) :
            LET row == mergeRows[r]
                id == row.property.id
                inst == InstanceEntries(LastCommit, id)
                img == ImageEntries(LastCommit, id)
            IN Resolvable(row) =>
                LET value == row.options[FirstOf(Matches(row))].value IN
                /\ Cardinality(inst) + Cardinality(img) = 1
                /\ row.property.mode = "id" =>
                      \A k \in inst \cup img :
                        /\ k \in inst
                        /\ LastCommit.instanceValues[k] =
                              [propertyId |-> id, instanceId |-> -1, value |-> value]
                /\ row.property.mode # "id" =>
                      \A k \in inst \cup img :
                        /\ k \in img
                        /\ LastCommit.imageValues[k] =
                              [propertyId |-> id, sha1 |-> baseImage[1].sha1, value |-> value]

\* a commit with an entry in each list
C7_Witness ==
    /\ last = "confirmMerge"
    /\ LastCommit.instanceValues # << >>
    /\ LastCommit.imageValues # << >>

\* C8: a row whose selection names none of its options, or whose selected
\* option has no value, has no entry in the commit, and the commit is sent
\* with one entry for each of the other rows.
C8_UnresolvedRowOmitted ==
    last = "confirmMerge" =>
        /\ pending # << >>
        /\ \A r \in 1..Len(mergeRows) :
              ~Resolvable(mergeRows[r]) =>
                  /\ InstanceEntries(LastCommit, mergeRows[r].property.id) = {}
                  /\ ImageEntries(LastCommit, mergeRows[r].property.id) = {}
        /\ Len(LastCommit.instanceValues) + Len(LastCommit.imageValues)
              = Cardinality({ r \in 1..Len(mergeRows) : Resolvable(mergeRows[r]) })

\* a commit sent with the entry of one row while another row is unresolved
C8_Witness ==
    /\ last = "confirmMerge"
    /\ \E r \in 1..Len(mergeRows) : Matches(mergeRows[r]) = {}
    /\ \E r \in 1..Len(mergeRows) : Resolvable(mergeRows[r])

\* C9: with no member buildRows leaves mergeRows empty, and confirmMerge
\* returns without a sendCommit call and without a change of state.
C9_EmptyClusterRefused ==
    /\ [](last = "buildRows" /\ images = << >> => mergeRows = << >>)
    /\ [][images = << >> /\ last' \in { "confirmMerge", "confirmMergeRefused" } =>
            /\ last' = "confirmMergeRefused"
            /\ UNCHANGED << shown, propertyList, component, pending >>]_vars

C9_Witness ==
    /\ last = "confirmMergeRefused"
    /\ groupData = Some([images |-> << >>])
    /\ mergeRows = << >>
    /\ pending = << >>

\* C10: a resolved sendCommit leaves the modal closed, and a closed modal
\* has no rows, no selection and no group data.
C10_ClosedIsCleared ==
    /\ last = "resolved" => ~shown
    /\ ~shown => mergeRows = << >> /\ DOMAIN selectedOptions = {} /\ groupData = None

C10_Witness == last = "resolved" /\ ~shown /\ ~merging /\ pending = << >>


\* the tag identifiers of the defined values of a row, in member order
RECURSIVE TagIds(_)
TagIds(values) ==
    IF values = << >> THEN << >>
    ELSE (IF Head(values).t = "array" THEN Head(values).v ELSE << Head(values).v >>)
         \o TagIds(Tail(values))

\* the position at which x is first met in s
FirstIndex(s, x) == FirstOf({ i \in 1..Len(s) : s[i] = x })

\* the option of a conflicting row that carries the combined value
CombinedOf(row) == row.options[FirstOf({ o \in 1..Len(row.options) :
                                            row.options[o].key = CombinedKey })]

\* C11: the combined value of a conflicting tag row is an array that holds
\* exactly the tag identifiers of the members' defined values, none twice,
\* in the order in which they are first met in member order.
C11_TagUnionFirstSeen ==
    last = "buildRows" =>
        \A r \in 1..Len(mergeRows) :
            LET row == mergeRows[r]
                ids == TagIds(RowValues(row))
                merged == CombinedOf(row).value
            IN (row.conflict /\ row.property.type \in {"tag", "multi_tags"}) =>
                /\ merged.t = "array"
                /\ SeqToSet(merged.v) = SeqToSet(ids)
                /\ \A i, j \in 1..Len(merged.v) : i # j => merged.v[i] # merged.v[j]
                /\ \A i, j \in 1..Len(merged.v) :
                      i < j => FirstIndex(ids, merged.v[i]) < FirstIndex(ids, merged.v[j])

\* a conflicting tag row whose members share an identifier
C11_Witness ==
    /\ last = "buildRows"
    /\ \E r \in 1..Len(mergeRows) :
          LET row == mergeRows[r]
              ids == TagIds(RowValues(row))
          IN /\ row.conflict
             /\ row.property.type = "multi_tags"
             /\ \E i, j \in 1..Len(ids) : i # j /\ ids[i] = ids[j]
             /\ Len(CombinedOf(row).value.v) = 3


\* the em dash (U+2014), one character
EmDash == "U+2014"

Red == << "r", "e", "d" >>
Blue == << "b", "l", "u", "e" >>

\* the display strings of the defined values of a row, in member order
RowDisplays(row) == MapSeq(RowValues(row), LAMBDA v : formatValue(v, row.property))

\* the combined value of every conflicting row that is not a tag row is the
\* row's display strings joined by sep, and "red", "blue" combine to joined
CombinedIsJoined(sep, joined) ==
    last = "buildRows" =>
        /\ \A r \in 1..Len(mergeRows) :
              LET row == mergeRows[r] IN
              (row.conflict /\ row.property.type \notin {"tag", "multi_tags"}) =>
                  CombinedOf(row).value = Str(Join(RowDisplays(row), sep))
        /\ combineValues(<< Str(Red), Undefined, Str(Blue) >>, pName) = Str(joined)

\* C12 as stated: the separator is space, em dash, space, and "red", "blue"
\* combine to "red", space, em dash, space, "blue".
C12_JoinedByEmDash ==
    CombinedIsJoined(<< " ", EmDash, " " >>, Red \o << " ", EmDash, " " >> \o Blue)

\* C12 amended: for a property that is not a tag combineValues returns the
\* display strings of the defined values, in member order, joined by
\* space, hyphen, hyphen, space; "red" and "blue" give "red -- blue".
C12_JoinedByDoubleHyphen ==
    CombinedIsJoined(<< " ", "-", "-", " " >>, Red \o << " ", "-", "-", " " >> \o Blue)

\* the row of the name of two members named A and B, combined to "A -- B"
C12_Witness ==
    /\ last = "buildRows"
    /\ \E r \in 1..Len(mergeRows) :
          /\ mergeRows[r].property = pName
          /\ mergeRows[r].conflict
          /\ CombinedOf(mergeRows[r]).value = Str(<< "A", " ", "-", "-", " ", "B" >>)


\* the (property, value) pairs of the entries of a commit
CommitPairs(commit) ==
    { << commit.instanceValues[k].propertyId, commit.instanceValues[k].value >> :
        k \in 1..Len(commit.instanceValues) }
    \cup { << commit.imageValues[k].propertyId, commit.imageValues[k].value >> :
        k \in 1..Len(commit.imageValues) }

\* the (property, value) pairs a member holds for the properties that can be merged
MemberPairs(img) ==
    { << propertyList[k].id, GetValue(img, propertyList[k].id) >> :
        k \in { j \in 1..Len(propertyList) :
                  /\ propertyList[j].id > 0
                  /\ ~propertyList[j].computed
                  /\ propertyList[j].type
                        \notin {"_folders", "_id", "_sha1", "_ahash", "_width", "_height"}
                  /\ ~IsAbsent(GetValue(img, propertyList[j].id)) } }

\* C13: in a session on a cluster of one member every row is without
\* conflict and has one option, which is the selected one, and the commit of
\* confirmMerge holds exactly that member's defined values for the properties
\* that can be merged, one entry each.
C13_SingleMemberEchoed ==
    (shown /\ Len(images) = 1) =>
        /\ \A r \in 1..Len(mergeRows) :
              LET row == mergeRows[r] IN
              /\ ~row.conflict
              /\ Len(row.options) = 1
              /\ row.property.id \in DOMAIN selectedOptions
              /\ selectedOptions[row.property.id] = row.options[1].key
        /\ last = "confirmMerge" =>
              /\ CommitPairs(LastCommit) = MemberPairs(images[1])
              /\ Len(LastCommit.instanceValues) + Len(LastCommit.imageValues)
                    = Cardinality(MemberPairs(images[1]))

\* the commit of a session on one member with two rows
C13_Witness ==
    /\ shown
    /\ Len(images) = 1
    /\ last = "confirmMerge"
    /\ Len(mergeRows) = 2
    /\ Cardinality(CommitPairs(LastCommit)) = 2


\* the first member, in member order, with a defined value for the property
FirstHolder(id) ==
    images[FirstOf({ m \in 1..Len(images) : ~IsAbsent(GetValue(images[m], id)) })]

\* C14: when onShow has opened a session, the selection of every row is
\* 'combined' if the row conflicts, else the key of its first option, the
\* option of the first member with a defined value; nothing else is selected.
C14_OpenSelectsDefault ==
    last = "onShow" =>
        /\ DOMAIN selectedOptions = { mergeRows[r].property.id : r \in 1..Len(mergeRows) }
        /\ \A r \in 1..Len(mergeRows) :
              LET row == mergeRows[r]
                  id == row.property.id
              IN /\ row.options[1].key = NumToString(FirstHolder(id).id)
                 /\ row.options[1].sourceImageId = FirstHolder(id).id
                 /\ selectedOptions[id] =
                      (IF row.conflict THEN CombinedKey ELSE row.options[1].key)

\* a session just opened with a conflicting row and with a row without
\* conflict whose first option is not the first member's
C14_Witness ==
    /\ last = "onShow"
    /\ \E r \in 1..Len(mergeRows) :
          mergeRows[r].conflict /\ selectedOptions[mergeRows[r].property.id] = CombinedKey
    /\ \E r \in 1..Len(mergeRows) :
          /\ ~mergeRows[r].conflict
          /\ mergeRows[r].options[1].sourceImageId # images[1].id
          /\ selectedOptions[mergeRows[r].property.id] = mergeRows[r].options[1].key


\* the positions of the members with a defined value for the property
Holders(id) == { m \in 1..Len(images) : ~IsAbsent(GetValue(images[m], id)) }

\* C15: the options of every row built by buildRows are, in member order,
\* one option per member with a defined value, keyed by the member's
\* identifier, then one 'combined' option without source member exactly when
\* the row conflicts; the list is not empty and has no other combined option.
C15_OptionsShape ==
    last = "buildRows" =>
        \A r \in 1..Len(mergeRows) :
            LET row == mergeRows[r]
                id == row.property.id
                n == Cardinality(Holders(id))
            IN /\ Len(row.options) >= 1
               /\ Len(row.options) = n + (IF row.conflict THEN 1 ELSE 0)
               /\ \A m \in Holders(id) :
                     row.options[Cardinality({ h \in Holders(id) : h <= m })]
                       = [key |-> NumToString(images[m].id),
                          value |-> GetValue(images[m], id),
                          sourceImageId |-> images[m].id]
               /\ row.conflict =>
                     /\ row.options[n + 1].key = CombinedKey
                     /\ "sourceImageId" \notin DOMAIN row.options[n + 1]
               /\ \A o \in 1..n : row.options[o].key # CombinedKey

\* a conflicting row, and a row with fewer options than members
C15_Witness ==
    /\ last = "buildRows"
    /\ \E r \in 1..Len(mergeRows) :
          /\ mergeRows[r].conflict
          /\ mergeRows[r].options[Len(mergeRows[r].options)].key = CombinedKey
    /\ \E r \in 1..Len(mergeRows) :
          /\ ~mergeRows[r].conflict
          /\ Len(mergeRows[r].options) < Len(images)


\* the positions of the members whose identifier is selectedImageId
SelectedMembers ==
    { m \in 1..Len(images) : selectedImageId # None /\ images[m].id = selectedImageId[1] }

\* the member the merged instance is copied from
ChosenBase == IF SelectedMembers # {} THEN images[FirstOf(SelectedMembers)] ELSE images[1]

\* C16: the commit of confirmMerge has one instance, the base member with
\* its identifier replaced by -1; the base member is the member whose
\* identifier is selectedImageId, or the first member when there is none;
\* buildRows and confirmMerge leave the members as they are.
C16_CommitCopiesBase ==
    /\ [](last = "confirmMerge" =>
            /\ Len(LastCommit.instances) = 1
            /\ LastCommit.instances[1].id = -1
            /\ LastCommit.instances[1].sha1 = ChosenBase.sha1
            /\ LastCommit.instances[1].properties = ChosenBase.properties
            /\ DOMAIN LastCommit.instances[1] = DOMAIN ChosenBase)
    /\ [][last' \in { "buildRows", "confirmMerge", "confirmMergeRefused" } =>
            groupData' = groupData]_vars

\* a commit whose base is the selected second member
C16_Witness ==
    /\ last = "confirmMerge"
    /\ Len(images) >= 2
    /\ SelectedMembers = { 2 }
    /\ LastCommit.instances[1].sha1 = images[2].sha1
    /\ images[2].sha1 # images[1].sha1


\* the position of a property in data.propertyList
PositionOf(property) == FirstOf({ k \in 1..Len(propertyList) : propertyList[k] = property })

\* C17: the rows built by buildRows follow the order of their properties in
\* the property list, and they are the rows of the property list and the
\* member list alone, whatever was selected before.
C17_RowsInListOrder ==
    last = "buildRows" =>
        /\ \A r1, r2 \in 1..Len(mergeRows) :
              r1 < r2 => PositionOf(mergeRows[r1].property) < PositionOf(mergeRows[r2].property)
        /\ mergeRows = buildRows(images, propertyList, EmptyMap).rows

\* rows built from the catalog in reverse order, after a selection was made
C17_Witness ==
    /\ last = "buildRows"
    /\ propertyList = Reverse(Catalog)
    /\ Len(mergeRows) >= 3
    /\ mergeRows[1].property = pTag
    /\ \E r \in 1..Len(mergeRows) :
          selectedOptions[mergeRows[r].property.id]
            # (IF mergeRows[r].conflict THEN CombinedKey ELSE mergeRows[r].options[1].key)


\* C18: in every state of a session each row of mergeRows has a selection,
\* and the selection is the key of one of the options of the row.
C18_SelectionNamesOption ==
    \A r \in 1..Len(mergeRows) :
        /\ mergeRows[r].property.id \in DOMAIN selectedOptions
        /\ \E o \in 1..Len(mergeRows[r].options) :
              mergeRows[r].options[o].key = selectedOptions[mergeRows[r].property.id]

\* after a radio input chose the option of a member in a conflicting row
C18_Witness ==
    /\ last = "selectOption"
    /\ \E r \in 1..Len(mergeRows) :
          /\ mergeRows[r].conflict
          /\ selectedOptions[mergeRows[r].property.id] # CombinedKey
          /\ Matches(mergeRows[r]) # {}


\* C19: merging is true in exactly the states in which a sendCommit call of
\* confirmMerge is pending, whatever onHide and onShow did in between.
C19_MergingIffPending ==
    /\ merging <=> pending # << >>
    /\ last = "confirmMerge" => merging
    /\ last \in { "resolved", "rejected" } => ~merging

\* a session opened anew while the call of the session before is pending
C19_Witness ==
    /\ last = "onShow"
    /\ merging
    /\ Len(pending) = 1
    /\ stale = << TRUE >>

\* C20: a sendCommit call that settles after its session was closed and
\* another was opened leaves the open session as it is: its success does not
\* close the modal, its failure does not set error.
C20_StaleSettleLeavesSession ==
    /\ [][(shown /\ last' = "resolved" /\ settledStale') => shown']_vars
    /\ [][(shown /\ last' = "rejected" /\ settledStale') => error' = error]_vars

=============================================================================
